---- MODULE Spec2Model ----
(***************************************************************************)
(* HyperEvolve (src/engine/evolve.py): coordinate-wise stochastic search   *)
(* over a hyperparameter mapping, with per-key patience, directional bias  *)
(* and a checkpoint written after every loop iteration.                    *)
(*                                                                         *)
(* Units.  Hyperparameter values and the (lower, upper, pace) profiles of  *)
(* META are integers: a profile whose pace is a decimal fraction is given  *)
(* in units of that pace (hsv_h: units of 1e-2).  Patience is counted in   *)
(* halves (the code adds 1 or subtracts 0.5), the mutation fraction in     *)
(* percent and the realized momentum in thousandths (round(..., 3)).       *)
(***************************************************************************)
EXTENDS Integers, Sequences, FiniteSets, TLC

\* ------------------------------------------------------------------ bounds
MaxEpochs == 2      \* largest epochs budget passed to __call__
MaxFit == 2         \* fitness values are 0..MaxFit
MaxPatience == 1    \* initial patience is 0..MaxPatience
MaxClock == 0       \* round(time.time()) at construction is 0..MaxClock
MaxRange == 3       \* direction resolution as a function: range in 0..MaxRange
MaxRaises == 1      \* fitness calls that raise, over the life of a project

\* ------------------------------------------------------- numeric helpers
Sign(x) == IF x > 0 THEN 1 ELSE IF x < 0 THEN -1 ELSE 0

Min2(a, b) == IF a <= b THEN a ELSE b

Max2(a, b) == IF a >= b THEN a ELSE b

\* Python round(n / d) for d > 0: nearest integer, ties to the even one.
Round(n, d) ==
    LET q == n \div d
        r == n % d
    IN  IF 2 * r < d THEN q
        ELSE IF 2 * r > d THEN q + 1
        ELSE IF q % 2 = 0 THEN q ELSE q + 1

\* np.clip(x, a_min, a_max) = minimum(maximum(x, a_min), a_max)
ClipNone(x, lo, hi) == x

Clip(x, lo, hi) == Min2(Max2(x, lo), hi)

\* ------------------------------------------------------------ META table
\* <<lower lim, upper lim, pace>>.  weight_decay in units of 1e-5, fl_gamma
\* of 1e-3, hsv_* and proba of 1e-2.  The entries float and uint (upper
\* limit 1e10) are beyond the checker's integers; no modelled key has them.
UniqueNames == <<"weight_decay", "fl_gamma", "hsv_h", "hsv_s", "hsv_v">>

UniqueProfile ==
    [weight_decay |-> <<0, 100000, 1>>,
     fl_gamma     |-> <<0, 3000, 1>>,
     hsv_h        |-> <<0, 10, 1>>,
     hsv_s        |-> <<0, 90, 1>>,
     hsv_v        |-> <<0, 90, 1>>]

GeneralNames == <<"kernel", "width", "depth", "proba">>

GeneralProfile ==
    [kernel |-> <<1, 99, 2>>,
     width  |-> <<4, 2048, 4>>,
     depth  |-> <<1, 10, 1>>,
     proba  |-> <<0, 100, 1>>]

\* ------------------------------------------------------------- key names
\* The key names of the modelled hyperparameter mappings, in the order of
\* Python's string comparison (the order yaml.dump writes mapping keys in).
SortedNames == <<"d_depth", "hsv_h", "lr">>

\* The word after the last underscore of a key name: k.endswith('_' + s)
\* holds exactly when LastWord[k] = s.
LastWord == [d_depth |-> "depth", hsv_h |-> "h", lr |-> ""]

EndsWith(k, suffix) == LastWord[k] = suffix

\* The order in which a hyperparameter mapping lists its keys.
HypOrder(h) == SelectSeq(<<"hsv_h", "d_depth", "lr">>, LAMBDA k : k \in DOMAIN h)

\* Hyperparameter mappings given to the constructor.
InitHyps ==
    { [hsv_h |-> 0, d_depth |-> 10, lr |-> 3],
      [hsv_h |-> 1, d_depth |-> 5, lr |-> 3],
      [hsv_h |-> 12, d_depth |-> 0, lr |-> 3],
      [hsv_h |-> 0, lr |-> 3],
      [lr |-> 3] }

\* ------------------------------------------------------------------ state
VARIABLES
    hyp,        \* self.hyp: key name -> value
    meta,       \* self.meta: the entries of the dict, in dict order
    seed,       \* self.seed
    patience0,  \* self.patience, the initial patience (whole units)
    hyp_f,      \* hyp.yaml: <<>> when no such file, else <<mapping>>
    state_f,    \* evolve.yaml: <<>> when no such file, else <<document>>
    result,     \* self.result: the evaluation log, one record per row
    pc,         \* "idle", "loop" (at the while test of __call__), "returned", "raised"
    epoch,      \* local epoch of __call__
    best_fit,   \* local best_fit of __call__
    epochs,     \* argument epochs of __call__
    mutation,   \* argument mutation of __call__, in percent
    calls,      \* number of calls of the fitness function so far
    evaluated,  \* the arguments (hyp, epoch) of each call that returned
    pruned,     \* keys popped from self.meta so far
    ret,        \* <<>> or <<the mapping returned by the last __call__>>
    last        \* what the most recent step did

vars == <<hyp, meta, seed, patience0, hyp_f, state_f, result, pc, epoch,
          best_fit, epochs, mutation, calls, evaluated, pruned, ret, last>>

KeysOf(m) == {m[i].key : i \in DOMAIN m}

IndexOf(m, k) == CHOOSE i \in DOMAIN m : m[i].key = k

\* self.meta[key] = value: an existing key keeps its place in the dict.
DictSet(m, e) ==
    IF e.key \in KeysOf(m) THEN [m EXCEPT ![IndexOf(m, e.key)] = e]
    ELSE Append(m, e)

DictPopKeep(m, k) == m

\* self.meta.pop(key)
DictPop(m, k) == SelectSeq(m, LAMBDA e : e.key # k)

\* META[...][key] + default_state; patience is stored in halves
Entry(k, prof, pat) ==
    [key |-> k, lower |-> prof[1], upper |-> prof[2], pace |-> prof[3],
     patience |-> 2 * pat, m_greed |-> 0]

\* the classification table: the names of each tier in the order of the
\* dict, and their profiles
META ==
    [unique |-> UniqueNames, uprofile |-> UniqueProfile,
     general |-> GeneralNames, gprofile |-> GeneralProfile]

\* for key in filter(lambda k: k in self.hyp, META['unique'])
RECURSIVE UniquePass(_, _, _, _, _)
UniquePass(names, profile, h, pat, m) ==
    IF names = <<>> THEN m
    ELSE UniquePass(Tail(names), profile, h, pat,
                    IF Head(names) \in DOMAIN h
                    THEN DictSet(m, Entry(Head(names), profile[Head(names)], pat))
                    ELSE m)

\* for key in filter(lambda k: k.endswith(f'_{suffix}'), self.hyp)
RECURSIVE SuffixKeys(_, _, _, _, _)
SuffixKeys(ks, suffix, profile, pat, m) ==
    IF ks = <<>> THEN m
    ELSE SuffixKeys(Tail(ks), suffix, profile, pat,
                    IF EndsWith(Head(ks), suffix)
                    THEN DictSet(m, Entry(Head(ks), profile[suffix], pat))
                    ELSE m)

\* for suffix in META['general']
RECURSIVE GeneralPass(_, _, _, _, _)
GeneralPass(suffixes, profile, h, pat, m) ==
    IF suffixes = <<>> THEN m
    ELSE GeneralPass(Tail(suffixes), profile, h, pat,
                     SuffixKeys(HypOrder(h), Head(suffixes), profile, pat, m))

\* set_meta with the table t
Register(t, h, pat) ==
    GeneralPass(t.general, t.gprofile, h, pat,
                UniquePass(t.unique, t.uprofile, h, pat, <<>>))

set_meta(h, pat) == Register(META, h, pat)

\* ------------------------------------------------------------ checkpoint
\* yaml.dump writes the keys of a mapping sorted; yaml.load gives a dict
\* whose order is the document's.
RECURSIVE InOrder(_, _)
InOrder(names, m) ==
    IF names = <<>> THEN <<>>
    ELSE (IF Head(names) \in KeysOf(m) THEN <<m[IndexOf(m, Head(names))]>> ELSE <<>>)
         \o InOrder(Tail(names), m)

DumpKeepOrder(m, s) == [meta |-> m, seed |-> s]

\* state_f.write_text(yaml.dump(meta + {'_seed': seed}))
Dump(m, s) == [meta |-> InOrder(SortedNames, m), seed |-> s]

\* save_or_load(save=False): what it leaves in self.meta, self.seed, self.hyp
LoadMeta(m) == IF state_f = <<>> THEN m ELSE state_f[1].meta

LoadSeedKeep(s) == s

LoadSeed(s) == IF state_f = <<>> THEN s ELSE state_f[1].seed

LoadHypKeep(h) == h

LoadHyp(h) == IF hyp_f = <<>> THEN h ELSE hyp_f[1]

\* -------------------------------------------------------- evaluation log
\* Result: append(record), length, max(fitness)
ResultLen(r) == Len(r)

RECURSIVE ResultMax(_)
ResultMax(r) ==
    IF Len(r) = 1 THEN r[1].fitness
    ELSE Max2(r[1].fitness, ResultMax(Tail(r)))

RowBeforeIncrement(k, prev, cur, mom, fit, ep) ==
    [hyp |-> k, previous |-> prev, current |-> cur, momentum |-> mom,
     fitness |-> fit, epoch |-> Max2(0, ep - 1)]

\* the row written by self.result.record(values, epoch)
Row(k, prev, cur, mom, fit, ep) ==
    [hyp |-> k, previous |-> prev, current |-> cur, momentum |-> mom,
     fitness |-> fit, epoch |-> ep]

\* ----------------------------------------------------- one loop iteration
\* p = patience ** 2 (in quarters); np.random.choice(tuple(self.meta), p=p / p.sum())
\* takes the first key whose cumulated weight exceeds the uniform variate.
Weight(e) == e.patience * e.patience

RECURSIVE Total(_)
Total(m) == IF m = <<>> THEN 0 ELSE Weight(Head(m)) + Total(Tail(m))

RECURSIVE PickFrom(_, _, _)
PickFrom(m, u, i) ==
    IF u < Weight(m[i]) \/ i = Len(m) THEN i
    ELSE PickFrom(m, u - Weight(m[i]), i + 1)

\* index in dict order of the key drawn when the variate falls in unit u of
\* the Total(m) units of weight
Pick(m, u) == PickFrom(m, u, 1)

\* range_ = round((upper_lim - lower_lim) / pace)
RangeOf(e) == Round(e.upper - e.lower, e.pace)

\* previous = round((self.hyp[key] - lower_lim) / pace)
PreviousOf(e, h) == Round(h[e.key] - e.lower, e.pace)

ForcedUpperOnly(previous, range_) == IF previous = range_ THEN -1 ELSE 0

\* m_forced = {0: 1, range_: -1}.get(previous, 0): in the dict display the
\* later entry replaces the earlier one when range_ = 0
Forced(previous, range_) ==
    IF previous = range_ THEN -1 ELSE IF previous = 0 THEN 1 ELSE 0

\* not (m_greed or m_forced): the direction is drawn by np.random.choice((-1, 1))
Drawn(m_greed, m_forced) == m_greed = 0 /\ m_forced = 0

DirectionNoCancel(m_greed, m_forced, coin) ==
    IF Drawn(m_greed, m_forced) THEN coin
    ELSE IF m_greed + m_forced = 0 THEN m_forced ELSE Sign(m_greed + m_forced)

\* momentum = coin if not (m_greed or m_forced) else sign(m_greed + m_forced)
Direction(m_greed, m_forced, coin) ==
    IF Drawn(m_greed, m_forced) THEN coin ELSE Sign(m_greed + m_forced)

MaxStepWhole(previous, mut) == Max2(1, previous)

\* np.random.randint(1, max((1, round(previous * mutation))) + 1) is in 1..MaxStep
MaxStep(previous, mut) == Max2(1, Round(previous * mut, 100))

\* current = clip(previous + momentum * step, 0, range_)
Candidate(previous, momentum, step, range_) ==
    Clip(previous + momentum * step, 0, range_)

\* round(n / (p + 1e-8), 3) in thousandths, p # 0, the quotient within [-1, 1]:
\* the 1e-8 settles an exact tie, towards zero for p > 0, away from it for p < 0
RoundEps(n, p) ==
    LET num == IF p > 0 THEN n ELSE -n
        den == IF p > 0 THEN p ELSE -p
        q == num \div den
        r == num % den
    IN  IF 2 * r < den THEN q
        ELSE IF 2 * r > den THEN q + 1
        ELSE IF (p > 0) = (num > 0) THEN q ELSE q + 1

\* momentum = round(clip((current - previous) / (previous + 1e-8), -1, 1), 3)
Realized(current, previous) ==
    IF previous = 0 THEN 1000 * Sign(current - previous)
    ELSE Clip(RoundEps(1000 * (current - previous), previous), -1000, 1000)

\* hyp[key] = current * pace + lower_lim
ValueAt(e, index) == index * e.pace + e.lower

PerturbedJoint(h, e, index) ==
    [k \in DOMAIN h |-> IF k \in {e.key, "lr"} THEN ValueAt(e, index) ELSE h[k]]

\* hyp = self.hyp.copy(); hyp[key] = current * pace + lower_lim
Perturbed(h, e, index) == [h EXCEPT ![e.key] = ValueAt(e, index)]

\* patience += 1 if better > 0 else -0.5
NewPatience(patience, better) == patience + (IF better > 0 THEN 2 ELSE -1)

StoredNoCap(pat0, patience) == patience

\* min((2 * self.patience, patience))
Stored(pat0, patience) == Min2(2 * (2 * pat0), patience)

\* int(np.sign(momentum * better))
Greed(momentum, better) == Sign(momentum * better)

AcceptsEqual(better) == better >= 0

\* if better > 0: self.hyp, best_fit = hyp, fit
Accepts(better) == better > 0

PrunesStored(pat0, patience) == Stored(pat0, patience) <= 0

\* skip = patience <= 0
Prunes(pat0, patience) == patience <= 0

NextSeedSame(s) == s

\* self.seed += 1
NextSeed(s) == s + 1

\* What an iteration starts from.
Snapshot ==
    [hyp |-> hyp, best_fit |-> best_fit, epoch |-> epoch, rows |-> Len(result),
     calls |-> calls, seed |-> seed, meta |-> meta, pruned |-> pruned,
     hyp_f |-> hyp_f, state_f |-> state_f]

NoSnapshot ==
    [hyp |-> <<>>, best_fit |-> 0, epoch |-> 0, rows |-> 0, calls |-> 0, seed |-> 0,
     meta |-> <<>>, pruned |-> {}, hyp_f |-> <<>>, state_f |-> <<>>]

\* The record of a step: the kind of step and, for an iteration, the values
\* of its locals and the state it started from.
Step(kind, e, prev, forced, mom, step, cur, real, fit, better, newpat) ==
    [kind |-> kind, key |-> e.key, range |-> RangeOf(e), previous |-> prev,
     m_greed |-> e.m_greed, m_forced |-> forced, momentum |-> mom, step |-> step,
     current |-> cur, value |-> ValueAt(e, cur), realized |-> real, fit |-> fit,
     better |-> better, patience |-> e.patience, new_patience |-> newpat,
     before |-> IF kind \in {"trial", "skip", "fail", "raise", "crash", "torn"} THEN Snapshot ELSE NoSnapshot]

NoKey == [key |-> "", lower |-> 0, upper |-> 0, pace |-> 1, patience |-> 0, m_greed |-> 0]

Other(kind) == Step(kind, NoKey, 0, 0, 0, 0, 0, 0, 0, 0, 0)

\* --------------------------------------------------------------- actions
Mutations == {50}

\* __init__ on an empty project directory
Init ==
    /\ hyp \in InitHyps
    /\ patience0 \in 0..MaxPatience
    /\ meta = set_meta(hyp, patience0)
    /\ seed \in 0..MaxClock
    /\ hyp_f = <<>>
    /\ state_f = <<>>
    /\ result = <<>>
    /\ pc = "idle"
    /\ epoch = 0
    /\ best_fit = 0
    /\ epochs = 0
    /\ mutation = 50
    /\ calls = 0
    /\ evaluated = <<>>
    /\ pruned = {}
    /\ ret = <<>>
    /\ last = Other("init")

\* __init__ of another engine object on the same project directory, with the
\* project's patience
Construct ==
    /\ pc # "loop"
    /\ \E h \in InitHyps, clock \in 0..MaxClock :
          /\ hyp' = h
          /\ meta' = set_meta(h, patience0)
          /\ seed' = clock
    /\ pc' = "idle"
    /\ epoch' = 0
    /\ best_fit' = 0
    /\ epochs' = 0
    /\ mutation' = 50
    /\ ret' = <<>>
    /\ last' = Other("construct")
    /\ UNCHANGED <<patience0, hyp_f, state_f, result, calls, evaluated, pruned>>

\* __call__ up to the while test: resume point from the log, load, baseline, save
Call ==
    /\ pc # "loop"
    /\ \E e \in 0..MaxEpochs, mu \in Mutations :
          /\ epochs' = e
          /\ mutation' = mu
    /\ meta' = LoadMeta(meta)
    /\ seed' = LoadSeed(seed)
    /\ hyp' = LoadHyp(hyp)
    /\ IF ResultLen(result) - 1 = -1
       THEN \E fit \in 0..MaxFit :
               /\ epoch' = 0
               /\ best_fit' = fit
               /\ result' = Append(result, Row("baseline", 0, 0, 0, fit, 0))
               /\ calls' = calls + 1
               /\ evaluated' = Append(evaluated, [hyp |-> hyp', epoch |-> 0])
       ELSE /\ epoch' = ResultLen(result) - 1
            /\ best_fit' = ResultMax(result)
            /\ UNCHANGED <<result, calls, evaluated>>
    /\ hyp_f' = <<hyp'>>
    /\ state_f' = <<Dump(meta', seed')>>
    /\ pc' = "loop"
    /\ ret' = <<>>
    /\ last' = Other("call")
    /\ UNCHANGED <<patience0, pruned>>

LoopingToo == pc = "loop" /\ epoch <= epochs /\ meta # <<>>

\* the while test holds
Looping == pc = "loop" /\ epoch < epochs /\ meta # <<>>

\* an iteration whose key selection raises: the weights sum to 0, p / p.sum()
\* is NaN and np.random.choice raises ValueError
SelectFail ==
    /\ Looping
    /\ Total(meta) = 0
    /\ seed' = NextSeed(seed)
    /\ pc' = "raised"
    /\ last' = Other("fail")
    /\ UNCHANGED <<hyp, meta, patience0, hyp_f, state_f, result, epoch, best_fit,
                   epochs, mutation, calls, evaluated, pruned, ret>>

\* an iteration in which m_greed and m_forced cancel: the key is popped
Skip ==
    /\ Looping
    /\ Total(meta) > 0
    /\ \E i \in {Pick(meta, u) : u \in 0..(Total(meta) - 1)} :
          LET e == meta[i]
              previous == PreviousOf(e, hyp)
              m_forced == Forced(previous, RangeOf(e))
          IN  /\ ~Drawn(e.m_greed, m_forced)
              /\ Direction(e.m_greed, m_forced, 1) = 0
              /\ meta' = DictPop(meta, e.key)
              /\ pruned' = pruned \cup {e.key}
              /\ last' = Step("skip", e, previous, m_forced, 0, 0, 0, 0, 0, 0, e.patience)
    /\ seed' = NextSeed(seed)
    /\ hyp_f' = <<hyp>>
    /\ state_f' = <<Dump(meta', seed')>>
    /\ UNCHANGED <<hyp, patience0, result, pc, epoch, best_fit, epochs, mutation,
                   calls, evaluated, ret>>

\* an iteration that evaluates a trial
Trial ==
    /\ Looping
    /\ Total(meta) > 0
    /\ \E i \in {Pick(meta, u) : u \in 0..(Total(meta) - 1)} :
          LET e == meta[i]
              range_ == RangeOf(e)
              previous == PreviousOf(e, hyp)
              m_forced == Forced(previous, range_)
          IN  \E coin \in IF Drawn(e.m_greed, m_forced) THEN {-1, 1} ELSE {1} :
                 LET momentum == Direction(e.m_greed, m_forced, coin)
                 IN  /\ momentum # 0
                     /\ \E step \in 1..MaxStep(previous, mutation), fit \in 0..MaxFit :
                           LET current == Candidate(previous, momentum, step, range_)
                               realized == Realized(current, previous)
                               cand == Perturbed(hyp, e, current)
                               better == fit - best_fit
                               patience == NewPatience(e.patience, better)
                               entry == [e EXCEPT !.patience = Stored(patience0, patience),
                                                  !.m_greed = Greed(realized, better)]
                               written == DictSet(meta, entry)
                           IN  /\ evaluated' = Append(evaluated, [hyp |-> cand, epoch |-> epoch + 1])
                               /\ result' = Append(result,
                                      Row(e.key, hyp[e.key], cand[e.key], realized, fit, epoch + 1))
                               /\ hyp' = IF Accepts(better) THEN cand ELSE hyp
                               /\ best_fit' = IF Accepts(better) THEN fit ELSE best_fit
                               /\ meta' = IF Prunes(patience0, patience)
                                          THEN DictPop(written, e.key) ELSE written
                               /\ pruned' = IF Prunes(patience0, patience)
                                            THEN pruned \cup {e.key} ELSE pruned
                               /\ last' = Step("trial", e, previous, m_forced, momentum, step,
                                               current, realized, fit, better, patience)
    /\ epoch' = epoch + 1
    /\ calls' = calls + 1
    /\ seed' = NextSeed(seed)
    /\ hyp_f' = <<hyp'>>
    /\ state_f' = <<Dump(meta', seed')>>
    /\ UNCHANGED <<patience0, pc, epochs, mutation, ret>>

\* the while test fails: report the best epoch, plot, return self.hyp; the
\* locals of __call__ end with it
Return ==
    /\ pc = "loop"
    /\ ~Looping
    /\ pc' = "returned"
    /\ ret' = <<hyp>>
    /\ last' = Other("return")
    /\ epoch' = 0
    /\ best_fit' = 0
    /\ epochs' = 0
    /\ mutation' = 50
    /\ UNCHANGED <<hyp, meta, seed, patience0, hyp_f, state_f, result, calls, evaluated,
                   pruned>>

Next == Construct \/ Call \/ SelectFail \/ Skip \/ Trial \/ Return

Spec == Init /\ [][Next]_vars

\* __call__ runs its loop to the end: no step of it waits for anything but
\* the fitness function, which returns.
FairSpec == Spec /\ WF_vars(SelectFail \/ Skip \/ Trial \/ Return)

\* ------------------------------------------- a fitness function that raises
OnRaiseRejected(m, e) == DictSet(m, [e EXCEPT !.patience = NewPatience(e.patience, 0)])

\* self.meta when fitness(hyp, epoch=epoch) raises at line 122: lines 123-135
\* are not run
OnRaise(m, e) == m

\* the fitness calls that raised so far: every call that returned has a row
Raises == calls - Len(result)

\* __call__ on an empty log whose baseline evaluation raises (line 89):
\* nothing is recorded and line 93 is not reached
BaselineRaise ==
    /\ pc # "loop"
    /\ Raises < MaxRaises
    /\ ResultLen(result) - 1 = -1
    /\ meta' = LoadMeta(meta)
    /\ seed' = LoadSeed(seed)
    /\ hyp' = LoadHyp(hyp)
    /\ calls' = calls + 1
    /\ pc' = "raised"
    /\ ret' = <<>>
    /\ last' = Other("baseline_raise")
    /\ UNCHANGED <<patience0, hyp_f, state_f, result, epoch, best_fit, epochs, mutation,
                   evaluated, pruned>>

\* an iteration whose fitness call raises (lines 96-122): the seed of the
\* object was advanced at line 96, the locals of __call__ end with it
TrialRaise ==
    /\ Looping
    /\ Raises < MaxRaises
    /\ Total(meta) > 0
    /\ \E i \in {Pick(meta, u) : u \in 0..(Total(meta) - 1)} :
          LET e == meta[i]
              range_ == RangeOf(e)
              previous == PreviousOf(e, hyp)
              m_forced == Forced(previous, range_)
          IN  \E coin \in IF Drawn(e.m_greed, m_forced) THEN {-1, 1} ELSE {1} :
                 LET momentum == Direction(e.m_greed, m_forced, coin)
                 IN  /\ momentum # 0
                     /\ \E step \in 1..MaxStep(previous, mutation) :
                           LET current == Candidate(previous, momentum, step, range_)
                               realized == Realized(current, previous)
                           IN  /\ meta' = OnRaise(meta, e)
                               /\ last' = Step("raise", e, previous, m_forced, momentum, step,
                                               current, realized, 0, 0, e.patience)
    /\ calls' = calls + 1
    /\ seed' = NextSeed(seed)
    /\ pc' = "raised"
    /\ epoch' = 0
    /\ best_fit' = 0
    /\ epochs' = 0
    /\ mutation' = 50
    /\ UNCHANGED <<hyp, patience0, hyp_f, state_f, result, evaluated, pruned, ret>>

RaiseNext == Next \/ BaselineRaise \/ TrialRaise

RaiseSpec == Init /\ [][RaiseNext]_vars

\* ------------------------------------------ a process that stops in the loop
\* the process stops at the while test, between two iterations
Stop ==
    /\ Looping
    /\ pc' = "stopped"
    /\ last' = Other("stop")
    /\ epoch' = 0
    /\ best_fit' = 0
    /\ epochs' = 0
    /\ mutation' = 50
    /\ UNCHANGED <<hyp, meta, seed, patience0, hyp_f, state_f, result, calls, evaluated,
                   pruned, ret>>

\* an iteration that evaluates a trial and stops after line 127 (point
\* "crash": the row is in the log, nothing is saved) or inside save_or_load
\* between lines 66 and 67 (point "torn": hyp.yaml is written, evolve.yaml
\* is not)
TrialStops ==
    /\ Looping
    /\ Total(meta) > 0
    /\ \E point \in {"crash", "torn"}, i \in {Pick(meta, u) : u \in 0..(Total(meta) - 1)} :
          LET e == meta[i]
              range_ == RangeOf(e)
              previous == PreviousOf(e, hyp)
              m_forced == Forced(previous, range_)
          IN  \E coin \in IF Drawn(e.m_greed, m_forced) THEN {-1, 1} ELSE {1} :
                 LET momentum == Direction(e.m_greed, m_forced, coin)
                 IN  /\ momentum # 0
                     /\ \E step \in 1..MaxStep(previous, mutation), fit \in 0..MaxFit :
                           LET current == Candidate(previous, momentum, step, range_)
                               realized == Realized(current, previous)
                               cand == Perturbed(hyp, e, current)
                               better == fit - best_fit
                               patience == NewPatience(e.patience, better)
                           IN  /\ evaluated' = Append(evaluated, [hyp |-> cand, epoch |-> epoch + 1])
                               /\ result' = Append(result,
                                      Row(e.key, hyp[e.key], cand[e.key], realized, fit, epoch + 1))
                               /\ hyp_f' = IF point = "torn" /\ Accepts(better)
                                           THEN <<cand>> ELSE hyp_f
                               /\ last' = Step(point, e, previous, m_forced, momentum, step,
                                               current, realized, fit, better, patience)
    /\ calls' = calls + 1
    /\ seed' = NextSeed(seed)
    /\ pc' = "stopped"
    /\ epoch' = 0
    /\ best_fit' = 0
    /\ epochs' = 0
    /\ mutation' = 50
    /\ UNCHANGED <<hyp, meta, patience0, state_f, pruned, ret>>

CrashNext == Next \/ Stop \/ TrialStops

CrashSpec == Init /\ [][CrashNext]_vars

\* ------------------------------------------------- set_meta as a function
\* Lines 38-45 applied to a mapping, an initial patience and a classification
\* table: META as it is, and META with one or two more exact-match entries,
\* of which d_depth also ends in the suffix entry depth.
WithExact(t, k, prof) ==
    [t EXCEPT !.unique = Append(@, k),
              !.uprofile = [n \in DOMAIN @ \cup {k} |-> IF n = k THEN prof ELSE @[n]]]

TableNames == {"META", "META+d_depth", "META+lr", "META+d_depth+lr"}

Table(name) ==
    CASE name = "META" -> META
      [] name = "META+d_depth" -> WithExact(META, "d_depth", <<0, 5, 1>>)
      [] name = "META+lr" -> WithExact(META, "lr", <<0, 7, 1>>)
      [] name = "META+d_depth+lr" ->
            WithExact(WithExact(META, "d_depth", <<0, 5, 1>>), "lr", <<0, 7, 1>>)

MetaInit ==
    /\ hyp \in InitHyps
    /\ patience0 \in 0..MaxPatience
    /\ meta = <<>>
    /\ seed = 0
    /\ hyp_f = <<>>
    /\ state_f = <<>>
    /\ result = <<>>
    /\ pc = "default_state"
    /\ epoch = 0
    /\ best_fit = 0
    /\ epochs = 0
    /\ mutation = 50
    /\ calls = 0
    /\ evaluated = <<>>
    /\ pruned = {}
    /\ ret = <<>>
    /\ last \in {[Other("set_meta") EXCEPT !.key = name] : name \in TableNames}

\* the loop over the exact-match tier (lines 40-41)
RegisterUnique ==
    /\ pc = "default_state"
    /\ meta' = UniquePass(Table(last.key).unique, Table(last.key).uprofile,
                          hyp, patience0, meta)
    /\ pc' = "unique"
    /\ UNCHANGED <<hyp, seed, patience0, hyp_f, state_f, result, epoch, best_fit, epochs,
                   mutation, calls, evaluated, pruned, ret, last>>

\* the loop over the suffix-match tier (lines 43-45)
RegisterGeneral ==
    /\ pc = "unique"
    /\ meta' = GeneralPass(Table(last.key).general, Table(last.key).gprofile,
                           hyp, patience0, meta)
    /\ pc' = "registered"
    /\ UNCHANGED <<hyp, seed, patience0, hyp_f, state_f, result, epoch, best_fit, epochs,
                   mutation, calls, evaluated, pruned, ret, last>>

MetaNext == RegisterUnique \/ RegisterGeneral

MetaSpec == MetaInit /\ [][MetaNext]_vars

\* ------------------------------------- direction resolution as a function
\* Lines 106-107 applied to every previous index, range and directional bias.
DirInput(prev, rng, greed) ==
    [Other("input") EXCEPT !.previous = prev, !.range = rng, !.m_greed = greed]

DirInit ==
    /\ hyp = [lr |-> 3]
    /\ patience0 = 0
    /\ meta = <<>>
    /\ seed = 0
    /\ hyp_f = <<>>
    /\ state_f = <<>>
    /\ result = <<>>
    /\ pc = "idle"
    /\ epoch = 0
    /\ best_fit = 0
    /\ epochs = 0
    /\ mutation \in {50, 100}
    /\ calls = 0
    /\ evaluated = <<>>
    /\ pruned = {}
    /\ ret = <<>>
    /\ last \in {DirInput(prev, rng, greed) :
                    prev \in (-1)..(MaxRange + 1), rng \in 0..MaxRange, greed \in {-1, 0, 1}}
                \cup {DirInput(50, 100, greed) : greed \in {-1, 0, 1}}

ResolveDirection ==
    /\ last.kind = "input"
    /\ \E coin \in {-1, 1} :
          LET m_forced == Forced(last.previous, last.range)
          IN  last' = [last EXCEPT !.kind = "resolved",
                                   !.m_forced = m_forced,
                                   !.momentum = Direction(last.m_greed, m_forced, coin)]
    /\ UNCHANGED <<hyp, meta, seed, patience0, hyp_f, state_f, result, pc, epoch,
                   best_fit, epochs, mutation, calls, evaluated, pruned, ret>>

\* lines 112-115 applied to the resolved direction and every step that
\* randint can draw
StepCandidate ==
    /\ last.kind = "resolved"
    /\ last.momentum # 0
    /\ \E step \in 1..MaxStep(last.previous, mutation) :
          LET current == Candidate(last.previous, last.momentum, step, last.range)
          IN  last' = [last EXCEPT !.kind = "stepped",
                                   !.step = step,
                                   !.current = current,
                                   !.realized = Realized(current, last.previous)]
    /\ UNCHANGED <<hyp, meta, seed, patience0, hyp_f, state_f, result, pc, epoch,
                   best_fit, epochs, mutation, calls, evaluated, pruned, ret>>

DirNext == ResolveDirection \/ StepCandidate

DirSpec == DirInit /\ [][DirNext]_vars

\* ------------------------------------------------------------------ claims
Resolved == last.kind \in {"resolved", "trial", "skip"}

\* C1: in every iteration that evaluates a trial the candidate index lies in
\* [0, range], whatever the direction, the step and the previous index.
CandidateInRange ==
    last.kind = "trial" =>
        /\ last.momentum \in {-1, 1}
        /\ 0 <= last.current /\ last.current <= last.range

\* C1 witness: a trial from a previous index above the range whose step
\* leaves the range and is brought back to it.
CandidateClipped ==
    /\ last.kind = "trial"
    /\ last.previous > last.range
    /\ last.previous + last.momentum * last.step > last.range
    /\ last.current = last.range

\* C2: the stored patience of every active key is at most 2 x the initial
\* patience, and a trial pops its key exactly when the updated patience
\* (+1 on improvement, -0.5 otherwise) is <= 0.
PatienceCapped ==
    /\ \A i \in DOMAIN meta : meta[i].patience <= 2 * (2 * patience0)
    /\ last.kind = "trial" =>
          /\ last.new_patience = last.patience + (IF last.better > 0 THEN 2 ELSE -1)
          /\ (last.new_patience <= 0) <=> (last.key \notin KeysOf(meta))
          /\ (last.new_patience <= 0) => last.key \in KeysOf(last.before.meta)
          /\ last.key \in KeysOf(meta) =>
                meta[IndexOf(meta, last.key)].patience
                    = Min2(2 * (2 * patience0), last.new_patience)

\* C2 witness: an improvement takes the updated patience above the cap.
PatienceClamped ==
    /\ last.kind = "trial"
    /\ last.new_patience > 2 * (2 * patience0)
    /\ last.key \in KeysOf(meta)

\* C3: an improving trial stores the candidate value and the trial's fitness
\* as the best; any other trial leaves the mapping and the best fitness alone.
AcceptOrKeep ==
    last.kind = "trial" =>
        /\ last.better = last.fit - last.before.best_fit
        /\ IF last.better > 0
           THEN /\ hyp = [last.before.hyp EXCEPT ![last.key] = last.value]
                /\ best_fit = last.fit
           ELSE /\ hyp = last.before.hyp
                /\ best_fit = last.before.best_fit

\* C3 witness: a trial whose fitness equals the best and whose candidate
\* value differs from the stored one.
RejectedEqual ==
    /\ last.kind = "trial"
    /\ last.better = 0
    /\ last.value # last.before.hyp[last.key]

Cancels ==
    \/ last.previous = 0 /\ last.m_greed = -1
    \/ last.previous = last.range /\ last.m_greed = 1

\* C4: an iteration whose key has bias and forced direction cancelling pops
\* the key, calls no fitness, appends no row, leaves epoch and mapping alone
\* and saves the checkpoint.
CancelPrunes ==
    (last.kind \in {"trial", "skip"} /\ Cancels) =>
        /\ last.kind = "skip"
        /\ KeysOf(meta) = KeysOf(last.before.meta) \ {last.key}
        /\ last.key \in KeysOf(last.before.meta)
        /\ calls = last.before.calls
        /\ Len(result) = last.before.rows
        /\ epoch = last.before.epoch
        /\ hyp = last.before.hyp
        /\ hyp_f = <<hyp>>
        /\ state_f # <<>>
        /\ state_f[1].seed = seed
        /\ KeysOf(state_f[1].meta) = KeysOf(meta)

\* C4 witness: a key at index 0 with bias -1 was selected and popped.
CancelAtLower ==
    /\ last.kind = "skip"
    /\ last.previous = 0
    /\ last.m_greed = -1

ResumeSelectsSame ==
    (Looping /\ Total(meta) > 0) =>
        /\ state_f # <<>> /\ hyp_f = <<hyp>>
        /\ state_f[1].seed = seed
        /\ ResultLen(result) - 1 = epoch
        /\ ResultMax(result) = best_fit
        /\ \A u \in 0..(Total(meta) - 1) :
              meta[Pick(meta, u)] = state_f[1].meta[Pick(state_f[1].meta, u)]

\* C7: __call__ with epochs equal to the epochs already in the log calls no
\* fitness, appends no row, pops no key, takes the saved seed, mapping and
\* metadata, rewrites the checkpoint as it was, runs no iteration and
\* returns the saved mapping.
NoNewTrials ==
    /\ [][(pc # "loop" /\ pc' = "loop" /\ result # <<>> /\ epochs' = Len(result) - 1) =>
            /\ calls' = calls /\ result' = result /\ pruned' = pruned
            /\ state_f # <<>> /\ hyp_f # <<>>
            /\ seed' = state_f[1].seed
            /\ meta' = state_f[1].meta
            /\ hyp' = hyp_f[1]
            /\ hyp_f' = hyp_f /\ state_f' = state_f
            /\ ~Looping']_vars
    /\ [][(pc = "loop" /\ ~Looping) =>
            /\ pc' = "returned" /\ ret' = <<hyp>>
            /\ UNCHANGED <<hyp, meta, seed, hyp_f, state_f, result, calls, pruned>>]_vars

\* C7 witness: the engine was invoked on a log that holds trials, with a
\* budget equal to its epochs, while keys are still active.
BudgetAlreadyUsed ==
    /\ last.kind = "call"
    /\ Len(result) >= 2
    /\ epochs = Len(result) - 1
    /\ meta # <<>>

PrunedStaysOut ==
    /\ pc = "loop" => KeysOf(meta) \cap pruned = {}
    /\ state_f # <<>> => KeysOf(state_f[1].meta) \cap pruned = {}
    /\ last.kind \in {"trial", "skip"} =>
          /\ last.key \notin last.before.pruned
          /\ last.before.pruned \subseteq pruned
          /\ \A k \in last.before.pruned : hyp[k] = last.before.hyp[k]

\* C9 witness: a trial was evaluated after a key had been popped.
TrialAfterPrune ==
    /\ last.kind = "trial"
    /\ last.before.pruned # {}

\* C10: every key of the active metadata is a key of the mapping.
MetaKeysInHyp == KeysOf(meta) \subseteq DOMAIN hyp

\* C10 witness: saved state was loaded, with a key popped and a key active.
LoadedActive ==
    /\ last.kind = "call"
    /\ pruned # {}
    /\ meta # <<>>

\* C11: an iteration changes the value of at most one key of the mapping, the
\* key it selected, which had an active metadata record; the other keys, the
\* unmatched and the popped ones among them, keep their values, and the key
\* set of the mapping stays as it was.
OneKeyPerIteration ==
    last.kind \in {"trial", "skip", "fail"} =>
        /\ DOMAIN hyp = DOMAIN last.before.hyp
        /\ \A k \in DOMAIN hyp :
              hyp[k] # last.before.hyp[k] =>
                  /\ last.kind = "trial"
                  /\ k = last.key
                  /\ k \in KeysOf(last.before.meta)
                  /\ k \notin last.before.pruned

\* C11 witness: an accepted trial changed the value of its key in a mapping
\* that also holds an unmatched key and a popped key.
OneKeyMoved ==
    /\ last.kind = "trial"
    /\ hyp[last.key] # last.before.hyp[last.key]
    /\ "lr" \in DOMAIN hyp
    /\ last.before.pruned # {}

\* C12: an iteration whose fitness call raises ends the invocation with the
\* error and leaves no trace: no row, the metadata (patience, bias, active
\* set), the mapping and both saved documents, the saved seed among them, are
\* those the iteration started from.
RaiseLeavesNoTrace ==
    last.kind = "raise" =>
        /\ pc = "raised"
        /\ calls = last.before.calls + 1
        /\ Len(result) = last.before.rows
        /\ meta = last.before.meta
        /\ pruned = last.before.pruned
        /\ hyp = last.before.hyp
        /\ hyp_f = last.before.hyp_f
        /\ state_f = last.before.state_f
        /\ state_f # <<>>
        /\ state_f[1].seed = last.before.seed
        /\ state_f[1].meta = Dump(last.before.meta, 0).meta

\* C12 witness: the fitness function raised in an iteration that followed a
\* recorded trial, after the seed of the object had been advanced.
RaisedAfterTrial ==
    /\ last.kind = "raise"
    /\ last.before.rows >= 2
    /\ seed = last.before.seed + 1

\* C13: whenever the engine is invoked again after the process stopped in
\* the loop, the restored mapping is a configuration of the log whose
\* recorded fitness is the best fitness read from the log.
ResumeHoldsBest ==
    (last.kind = "call" /\ result # <<>>) =>
        \E i \in DOMAIN result :
            /\ result[i].fitness = best_fit
            /\ evaluated[i].hyp = hyp

\* C14: the log holds one row per epoch: at every iteration boundary its
\* length is epoch + 1, row i has epoch index i - 1, a step only appends to
\* it, each row stands for one call of the fitness function, made with the
\* row's epoch index, and the baseline row is the first row and no other,
\* evaluated on the mapping as it was, whatever the number of invocations.
OneRowPerEpoch ==
    /\ [](/\ pc = "loop" => Len(result) = epoch + 1
          /\ \A i \in DOMAIN result :
                /\ result[i].epoch = i - 1
                /\ (result[i].hyp = "baseline") <=> (i = 1)
          /\ calls = Len(result)
          /\ Len(evaluated) = Len(result)
          /\ \A i \in DOMAIN result : evaluated[i].epoch = result[i].epoch
          /\ (last.kind = "call" /\ Len(result) = 1) => evaluated[1].hyp = hyp)
    /\ [][/\ Len(result') \in {Len(result), Len(result) + 1}
          /\ SubSeq(result', 1, Len(result)) = result
          /\ calls' - calls = Len(result') - Len(result)
          /\ (pc # "loop" /\ calls' # calls) => result = <<>>]_vars

\* C14 witness: the engine was invoked on a log of three rows and found
\* epoch 2 without evaluating anything.
InvokedOnThreeRows ==
    /\ last.kind = "call"
    /\ Len(result) = 3
    /\ epoch = 2
    /\ calls = 3

ExactKeys(t, h) == {k \in DOMAIN h : \E i \in DOMAIN t.unique : t.unique[i] = k}

SuffixOf(t, k) == {t.general[i] : i \in {j \in DOMAIN t.general : EndsWith(k, t.general[j])}}

Profile(e) == <<e.lower, e.upper, e.pace>>

SeedAdvances ==
    /\ [][(pc = "loop" /\ pc' = "loop") =>
            /\ seed' = seed + 1
            /\ state_f'[1].seed = seed']_vars
    /\ [][(pc = "loop" /\ pc' = "raised") =>
            /\ seed' = seed + 1
            /\ state_f' = state_f]_vars
    /\ [][(pc = "loop" /\ pc' = "returned") =>
            /\ seed' = seed
            /\ state_f' = state_f]_vars
    /\ [][(pc # "loop" /\ pc' = "loop") =>
            /\ seed' = IF state_f = <<>> THEN seed ELSE state_f[1].seed
            /\ state_f'[1].seed = seed']_vars
    /\ [][state_f # <<>> =>
            /\ state_f' # <<>>
            /\ state_f'[1].seed \in {state_f[1].seed, state_f[1].seed + 1}]_vars
    /\ [](pc = "loop" => (state_f # <<>> /\ state_f[1].seed = seed))

\* C16 witness: an iteration that skipped and popped its key, after a
\* recorded trial, advanced the seed and saved it.
SkipAdvancedSeed ==
    /\ last.kind = "skip"
    /\ last.before.rows >= 2
    /\ seed = last.before.seed + 1
    /\ state_f[1].seed = seed

\* C17: every stored bias is -1, 0 or +1; after a trial the bias stored for
\* its key is sign(realized momentum x improvement), which is the direction
\* the index moved in when the trial improved, the opposite direction when
\* its fitness was below the best and 0 when it equalled the best; the bias
\* of every other key is as it was.
BiasFollowsMove ==
    /\ \A i \in DOMAIN meta : meta[i].m_greed \in {-1, 0, 1}
    /\ last.kind = "trial" =>
          \A i \in DOMAIN meta :
              IF meta[i].key = last.key
              THEN /\ meta[i].m_greed = Sign(last.realized * last.better)
                   /\ meta[i].m_greed = Sign(last.current - last.previous) * Sign(last.better)
              ELSE meta[i].m_greed
                       = last.before.meta[IndexOf(last.before.meta, meta[i].key)].m_greed

Distance(a, b) == IF a >= b THEN a - b ELSE b - a

\* C18: from a previous index in [0, range], range >= 1, the candidate index
\* differs from the previous one by at least 1 and at most
\* max(1, round(previous x mutation)); from previous 50 in a range of 100
\* with mutation 0.5 it lies in [25, 75], and from previous 0 it is 1.
StepBounded ==
    (/\ last.kind \in {"stepped", "trial"}
     /\ 0 <= last.previous /\ last.previous <= last.range
     /\ last.range >= 1) =>
        /\ last.current # last.previous
        /\ 1 <= Distance(last.current, last.previous)
        /\ Distance(last.current, last.previous)
              <= Max2(1, Round(last.previous * mutation, 100))
        /\ (last.previous = 50 /\ last.range = 100 /\ mutation = 50)
              => (25 <= last.current /\ last.current <= 75)
        /\ last.previous = 0 => last.current = 1

\* C18 witness: the largest step down from previous 50 with mutation 0.5.
LargestStepDown ==
    /\ last.kind = "stepped"
    /\ last.previous = 50
    /\ last.range = 100
    /\ mutation = 50
    /\ last.current = 25

\* C19: whenever an iteration starts the active set is non-empty, every key
\* of it has a patience above 0 and the selection weights have a positive
\* sum, so that no key selection raises, for every initial patience, 0
\* included.
SelectionNeverFails ==
    /\ Looping =>
          /\ meta # <<>>
          /\ \A i \in DOMAIN meta : meta[i].patience > 0
          /\ Total(meta) > 0
    /\ last.kind # "fail"

IsBest(r, i) == \A j \in DOMAIN r : r[j].fitness <= r[i].fitness

\* result['fitness'].argmax(): the first row that holds the maximum
BestRow(r) == CHOOSE i \in DOMAIN r : IsBest(r, i) /\ \A j \in 1..(i - 1) : ~IsBest(r, j)

\* C20: at every iteration boundary the best fitness is the maximum fitness
\* of the log and the mapping is the configuration evaluated for the first
\* row that holds it; the mapping returned is that configuration; no trial
\* lowers the best fitness.
BestIsFirstMax ==
    /\ pc = "loop" =>
          /\ best_fit = result[BestRow(result)].fitness
          /\ hyp = evaluated[BestRow(result)].hyp
    /\ last.kind = "return" => ret = <<evaluated[BestRow(result)].hyp>>
    /\ last.kind = "trial" => best_fit >= last.before.best_fit

\* C20 witness: the mapping returned was evaluated in a trial whose fitness
\* a later row equalled.
ReturnedFirstOfTwo ==
    /\ last.kind = "return"
    /\ BestRow(result) = 2
    /\ Len(result) = 3
    /\ result[3].fitness = result[2].fitness
    /\ evaluated[3].hyp # evaluated[2].hyp

====
